---- MODULE Spec2Model ----
(***************************************************************************)
(* Technician Hours Tracker (Hours_Process_app.py): the normalisation,     *)
(* ingestion, aggregation, roster merge and colour band of one batch run.  *)
(*                                                                         *)
(* Hours are exact fixed-point numbers counted in seconds (1/3600 h), so   *)
(* t.total_seconds() / 3600.0 of a whole-second duration, hour + minute/60 *)
(* + second/3600 and val * 24.0 are all integers of that unit.  A string   *)
(* is a sequence of one-character strings.                                 *)
(***************************************************************************)
EXTENDS Integers, Sequences, FiniteSets, TLC

VARIABLES
    pc,              \* position of the script: "loop", "summary", "nodata", "prompt", "norm"
    sort_by_hours,   \* the sidebar checkbox
    uploaded_files,  \* the files the loop has taken so far, in upload order
    all_data,        \* list of cleaned frames, one per accepted file
    messages,        \* st.warning / st.error / st.info calls so far
    grouped,         \* the groupby result: technician -> counts, empty before it exists
    summary,         \* the summary frame (a sequence of rows), <<>> before it exists
    colors,          \* one colour per summary row
    t_in,            \* last value handed to time_to_hours on its own
    t_out            \* and what it returned

vars == <<pc, sort_by_hours, uploaded_files, all_data, messages, grouped, summary, colors, t_in, t_out>>

(***************************************************************************)
(* Bounds of the model.                                                    *)
(***************************************************************************)
MaxUpload == 4       \* size of one upload: the number of its files plus the number of their rows
MaxNum == 4          \* numeric cells range over -MaxNum .. MaxNum quarter hours and whole hours
MaxClock == 2        \* hour / minute / second fields range over 0 .. MaxClock (and the top of the dial)

(***************************************************************************)
(* Program constants.                                                      *)
(***************************************************************************)
SecondsPerHour == 3600   \* "/ 3600.0"
HoursPerDay == 24        \* "val * 24.0"
RedBelow == 20           \* "if hours < 20", "max(max_hours, 20.0)"
RoundPerHour == 100      \* ".round(2)": hundredths of an hour

Null == [kind |-> "null"]          \* a missing cell (NaN / None / NaT)
Str(s) == [kind |-> "str", s |-> s] \* a string cell
Fail == [ok |-> FALSE]             \* a parse that raises
Parsed(v) == [ok |-> TRUE, v |-> v] \* a parse that returns v

TECHNICIAN_COL == "Technician"
WORK_ORDER_COL == "Work order for labor reporting"
HOURS_COL == "Labor reporting time (duration)"
RequiredCols == <<TECHNICIAN_COL, WORK_ORDER_COL, HOURS_COL>>

Min(S) == CHOOSE x \in S : \A y \in S : x <= y
Max(S) == CHOOSE x \in S : \A y \in S : x >= y

(***************************************************************************)
(* Strings: str.upper, str.strip and the comparison sorted() uses.         *)
(***************************************************************************)
Alphabet ==
    <<" ", "0", "1", "2", "3", "4", "5", "6", "7", "8", "9",
      "A", "B", "C", "D", "E", "F", "G", "H", "I", "J", "K", "L", "M",
      "N", "O", "P", "Q", "R", "S", "T", "U", "V", "W", "X", "Y", "Z", "_",
      "a", "b", "c", "d", "e", "f", "g", "h", "i", "j", "k", "l", "m",
      "n", "o", "p", "q", "r", "s", "t", "u", "v", "w", "x", "y", "z">>

Ord(c) == CHOOSE i \in 1..Len(Alphabet) : Alphabet[i] = c

FirstUpper == Ord("A")
FirstLower == Ord("a")

UpperChar(c) ==
    IF Ord(c) >= FirstLower THEN Alphabet[Ord(c) - FirstLower + FirstUpper] ELSE c

StrUpper(s) == [i \in 1..Len(s) |-> UpperChar(s[i])]

StrStrip(s) ==
    LET keep == {i \in 1..Len(s) : s[i] # " "}
    IN  IF keep = {} THEN <<>> ELSE SubSeq(s, Min(keep), Max(keep))

\* a < b in Python's string order (code points, shorter prefix first)
StrLess(a, b) ==
    \/ /\ Len(a) < Len(b)
       /\ \A i \in 1..Len(a) : a[i] = b[i]
    \/ \E k \in 1..Min({Len(a), Len(b)}) :
          /\ \A i \in 1..(k - 1) : a[i] = b[i]
          /\ Ord(a[k]) < Ord(b[k])

(***************************************************************************)
(* The roster.  The listed roster has twenty names; the model keeps three  *)
(* of them, in the order they are listed.                                  *)
(***************************************************************************)
SRIJAN == <<"S", "R", "I", "J", "A", "N">>
ANISH == <<"A", "N", "I", "S", "H">>
ROHIT == <<"R", "O", "H", "I", "T">>

ManualTechsListed == <<SRIJAN, ANISH, ROHIT>>

\* sorted(xs, key=str.upper): a stable insertion sort on the upper-cased name
RECURSIVE SortedByUpper(_)
SortedByUpper(xs) ==
    IF xs = <<>> THEN <<>>
    ELSE LET x == Head(xs)
             rest == SortedByUpper(Tail(xs))
             k == Cardinality({i \in 1..Len(rest) : StrLess(StrUpper(rest[i]), StrUpper(x))})
         IN  SubSeq(rest, 1, k) \o <<x>> \o SubSeq(rest, k + 1, Len(rest))

MANUAL_TECHS == SortedByUpper(ManualTechsListed)

(***************************************************************************)
(* Raw duration cells, tagged by the type the isinstance cascade sees:     *)
(*   Null                                   pd.isnull(t)                   *)
(*   [kind "timedelta", secs]               pd.Timedelta                   *)
(*   [kind "timestamp" / "time", h, m, s]   pd.Timestamp, datetime.time    *)
(*   [kind "number", val]                   int / float, val in 1/3600     *)
(*   [kind "text", td, dt, num]             anything else: what            *)
(*        pd.to_timedelta, pd.to_datetime and float(str(t)) make of it,    *)
(*        each Parsed(v) or Fail                                           *)
(***************************************************************************)
Timedelta(secs) == [kind |-> "timedelta", secs |-> secs]
Timestamp(h, m, s) == [kind |-> "timestamp", h |-> h, m |-> m, s |-> s]
ClockTime(h, m, s) == [kind |-> "time", h |-> h, m |-> m, s |-> s]
Number(val) == [kind |-> "number", val |-> val]
Text(td, dt, num) == [kind |-> "text", td |-> td, dt |-> dt, num |-> num]

\* t.hour + t.minute / 60.0 + t.second / 3600.0
HourOfDay(t) == t.h * SecondsPerHour + t.m * 60 + t.s

\* the day-fraction test with both ends excluded
time_to_hours_OpenInterval(t) ==
    IF t = Null THEN 0
    ELSE IF t.kind = "timedelta" THEN t.secs
    ELSE IF t.kind = "timestamp" THEN HourOfDay(t)
    ELSE IF t.kind = "time" THEN HourOfDay(t)
    ELSE IF t.kind = "number" THEN
        IF 0 < t.val /\ t.val < SecondsPerHour THEN t.val * HoursPerDay ELSE t.val
    ELSE IF t.td.ok THEN t.td.v
    ELSE IF t.dt.ok THEN HourOfDay(t.dt.v)
    ELSE IF t.num.ok THEN t.num.v
    ELSE 0

time_to_hours(t) ==
    IF t = Null THEN 0
    ELSE IF t.kind = "timedelta" THEN t.secs
    ELSE IF t.kind = "timestamp" THEN HourOfDay(t)
    ELSE IF t.kind = "time" THEN HourOfDay(t)
    ELSE IF t.kind = "number" THEN
        IF 0 <= t.val /\ t.val <= SecondsPerHour THEN t.val * HoursPerDay ELSE t.val
    ELSE IF t.td.ok THEN t.td.v
    ELSE IF t.dt.ok THEN HourOfDay(t.dt.v)
    ELSE IF t.num.ok THEN t.num.v
    ELSE 0

\* the cells the normaliser is tried on
ClockField(top) == (0..MaxClock) \cup {top}
NumberVals ==
    {k * (SecondsPerHour \div 4) : k \in (-MaxNum)..MaxNum}
        \cup {k * SecondsPerHour : k \in (-MaxNum - 1)..(MaxNum + 1)}
        \cup {RedBelow * SecondsPerHour}
RawDurations ==
    {Null}
        \cup {Timedelta(k * (SecondsPerHour \div 2)) : k \in (-MaxNum)..MaxNum}
        \cup {Timestamp(h, m, s) : h \in ClockField(23), m \in ClockField(59), s \in ClockField(59)}
        \cup {ClockTime(h, m, s) : h \in ClockField(23), m \in ClockField(59), s \in ClockField(59)}
        \cup {Number(v) : v \in NumberVals}
        \cup {Text(td, dt, num) :
                td \in {Fail, Parsed(5400), Parsed(-1800)},
                dt \in {Fail, Parsed([h |-> 14, m |-> 30, s |-> 0])},
                num \in {Fail, Parsed(9000), Parsed(-18000)}}

(***************************************************************************)
(* Uploaded files.  A file is [readable, columns, rows]: whether           *)
(* pd.read_excel returns a frame, the column names of that frame, and its  *)
(* rows.  A row is [Technician, WorkOrder, Hours], each a cell; the cell   *)
(* of a column the frame does not have is never read.                      *)
(***************************************************************************)
Row(tech, wo, hours) == [Technician |-> tech, WorkOrder |-> wo, Hours |-> hours]

RawRows ==
    { Row(Str(<<" ", "a", "n", "i", "s", "h">>), Str("WO1"), Timedelta(SecondsPerHour)),
      Row(Str(ANISH), Str("WO1"), Number(SecondsPerHour \div 2)),
      Row(Str(<<"R", "o", "h", "i", "t", " ">>), Str("WO2"), Number(2 * SecondsPerHour)),
      Row(Str(ROHIT), Null, Timedelta(RedBelow * SecondsPerHour + 10)),
      Row(Null, Str("WO1"), Number(2 * SecondsPerHour)),
      Row(Str(ANISH), Str("WO2"), Null),
      Row(Str(<<"Z", "E", "D">>), Str("WO1"), Number(RedBelow * SecondsPerHour)) }

RECURSIVE SeqsUpTo(_, _)
SeqsUpTo(S, n) ==
    IF n = 0 THEN {<<>>}
    ELSE LET shorter == SeqsUpTo(S, n - 1)
         IN  shorter \cup {Append(q, x) : q \in {p \in shorter : Len(p) = n - 1}, x \in S}

\* the frame has every required column, or lacks the work-order column
ColumnSets == {{TECHNICIAN_COL, WORK_ORDER_COL, HOURS_COL}, {TECHNICIAN_COL, HOURS_COL}}

Unreadable == [readable |-> FALSE, columns |-> {}, rows |-> <<>>]

FilesUpTo(n) ==
    {Unreadable} \cup
        {[readable |-> TRUE, columns |-> c, rows |-> r] : c \in ColumnSets, r \in SeqsUpTo(RawRows, n)}

RECURSIVE UploadSize(_)
UploadSize(files) ==
    IF files = <<>> THEN 0 ELSE 1 + Len(Head(files).rows) + UploadSize(Tail(files))

(***************************************************************************)
(* One iteration of the per-file loop.                                     *)
(***************************************************************************)
\* df.dropna(subset=[Technician, Hours]); strip/upper the technician;
\* apply time_to_hours; keep the three columns
CleanFrame(rows) ==
    LET kept == SelectSeq(rows, LAMBDA r : r.Technician # Null /\ r.Hours # Null)
    IN  [i \in 1..Len(kept) |->
            [Technician |-> StrUpper(StrStrip(kept[i].Technician.s)),
             WorkOrder |-> kept[i].WorkOrder,
             Hours |-> time_to_hours(kept[i].Hours)]]

MissingCols(f) == SelectSeq(RequiredCols, LAMBDA c : c \notin f.columns)

NoMessage == <<>>

\* the loop body without the "continue" after the warning
LoopBody_NoContinue(data, f) ==
    IF ~f.readable
        THEN [all_data |-> data, shown |-> <<[level |-> "error", missing |-> <<>>]>>]
    ELSE IF MissingCols(f) # <<>>
        THEN [all_data |-> Append(data, CleanFrame(f.rows)),
              shown |-> <<[level |-> "warning", missing |-> MissingCols(f)]>>]
    ELSE [all_data |-> Append(data, CleanFrame(f.rows)), shown |-> NoMessage]

\* the loop body with "all_data = [frame]" for "all_data.append(frame)"
LoopBody_Overwrite(data, f) ==
    IF ~f.readable
        THEN [all_data |-> data, shown |-> <<[level |-> "error", missing |-> <<>>]>>]
    ELSE IF MissingCols(f) # <<>>
        THEN [all_data |-> data, shown |-> <<[level |-> "warning", missing |-> MissingCols(f)]>>]
    ELSE [all_data |-> <<CleanFrame(f.rows)>>, shown |-> NoMessage]

\* the body of "for uploaded_file in uploaded_files": the new all_data and
\* the message the iteration shows, if any
LoopBody(data, f) ==
    IF ~f.readable
        THEN [all_data |-> data, shown |-> <<[level |-> "error", missing |-> <<>>]>>]
    ELSE IF MissingCols(f) # <<>>
        THEN [all_data |-> data, shown |-> <<[level |-> "warning", missing |-> MissingCols(f)]>>]
    ELSE [all_data |-> Append(data, CleanFrame(f.rows)), shown |-> NoMessage]

\* the whole loop over a list of files, from all_data = []
RECURSIVE RunLoop(_)
RunLoop(files) ==
    IF files = <<>> THEN <<>>
    ELSE LoopBody(RunLoop(SubSeq(files, 1, Len(files) - 1)), files[Len(files)]).all_data

(***************************************************************************)
(* Combine and summarise.                                                  *)
(***************************************************************************)
\* pd.concat(all_data, ignore_index=True)
RECURSIVE Concat(_)
Concat(frames) == IF frames = <<>> THEN <<>> ELSE Head(frames) \o Concat(Tail(frames))

RowsOf(df, tech) == {i \in 1..Len(df) : df[i].Technician = tech}

\* "count" for "nunique"
NUnique_Count(df, idx) == Cardinality({i \in idx : df[i].WorkOrder # Null})

\* "nunique": the distinct non-null values of the column in the group
NUnique(df, idx) == Cardinality({df[i].WorkOrder : i \in idx} \ {Null})

\* "sum" of the column in the group
RECURSIVE SumHours(_, _)
SumHours(df, idx) ==
    IF idx = {} THEN 0
    ELSE LET i == CHOOSE j \in idx : TRUE
         IN  df[i].Hours + SumHours(df, idx \ {i})

\* the aggregation after a drop_duplicates on (Technician, WorkOrder)
Grouped_DropDuplicates(df) ==
    [tech \in {df[i].Technician : i \in 1..Len(df)} |->
        [Work_Orders_Completed |-> NUnique(df, RowsOf(df, tech)),
         Total_Hours_Worked |->
            SumHours(df, {i \in RowsOf(df, tech) :
                            \A j \in RowsOf(df, tech) : df[j].WorkOrder = df[i].WorkOrder => j >= i})]]

\* combined_df.groupby(Technician).agg(nunique, sum): one entry per technician present
Grouped(df) ==
    [tech \in {df[i].Technician : i \in 1..Len(df)} |->
        [Work_Orders_Completed |-> NUnique(df, RowsOf(df, tech)),
         Total_Hours_Worked |-> SumHours(df, RowsOf(df, tech))]]

\* .round(2): to the nearest hundredth of an hour, halves to the even hundredth
Round2(x) ==
    LET q == SecondsPerHour \div RoundPerHour
        r == x % q
        lo == x - r
    IN  IF 2 * r < q THEN lo
        ELSE IF 2 * r > q THEN lo + q
        ELSE IF (lo \div q) % 2 = 0 THEN lo ELSE lo + q

\* the merge with how="inner"
Merge_Inner(roster, agg) ==
    LET present == SelectSeq(roster, LAMBDA tech : tech \in DOMAIN agg)
    IN  [i \in 1..Len(present) |->
            [Technician |-> present[i],
             Work_Orders_Completed |-> agg[present[i]].Work_Orders_Completed,
             Total_Hours_Worked |-> Round2(agg[present[i]].Total_Hours_Worked)]]

\* manual_df.merge(grouped, how="left"), fillna(0).astype(int), fillna(0.0).round(2)
Merge(roster, agg) ==
    [i \in 1..Len(roster) |->
        IF roster[i] \in DOMAIN agg
            THEN [Technician |-> roster[i],
                  Work_Orders_Completed |-> agg[roster[i]].Work_Orders_Completed,
                  Total_Hours_Worked |-> Round2(agg[roster[i]].Total_Hours_Worked)]
            ELSE [Technician |-> roster[i],
                  Work_Orders_Completed |-> 0,
                  Total_Hours_Worked |-> 0]]

IsDescending(s) ==
    \A i \in 1..(Len(s) - 1) : s[i].Total_Hours_Worked >= s[i + 1].Total_Hours_Worked

IsAscending(s) ==
    \A i \in 1..(Len(s) - 1) : s[i].Total_Hours_Worked <= s[i + 1].Total_Hours_Worked

\* the arrangements of the index set S, as sequences
RECURSIVE Arrangements(_)
Arrangements(S) ==
    IF S = {} THEN {<<>>}
    ELSE UNION {{<<x>> \o p : p \in Arrangements(S \ {x})} : x \in S}

Perms(n) == Arrangements(1..n)

\* the sort with ascending=True
SortValues_Ascending(s) ==
    {q \in {[i \in 1..Len(s) |-> s[p[i]]] : p \in Perms(Len(s))} : IsAscending(q)}

\* sort_values(by=Total_Hours_Worked, ascending=False): kind defaults to
\* "quicksort", which promises no order among equal keys, so every
\* descending arrangement of the rows is a possible result
SortValues(s) ==
    {q \in {[i \in 1..Len(s) |-> s[p[i]]] : p \in Perms(Len(s))} : IsDescending(q)}

MergedSummary(data) == Merge(MANUAL_TECHS, Grouped(Concat(data)))

\* every summary the run can end with
SummaryOutcomes(data, sorted) ==
    IF sorted THEN SortValues(MergedSummary(data)) ELSE {MergedSummary(data)}

(***************************************************************************)
(* Bar colours.                                                            *)
(***************************************************************************)
EmptyMax == 40

Red == [color |-> "#FF0000"]
Cmap(num, den) == [color |-> "cmap", num |-> num, den |-> den]   \* cmap(num / den)

\* the gradient scaled to the 40 h target instead of the batch maximum
get_bar_color_FixedMax(hours, max_hours) ==
    LET max_for_norm == EmptyMax * SecondsPerHour
    IN  IF hours < RedBelow * SecondsPerHour THEN Red
        ELSE IF max_for_norm - RedBelow * SecondsPerHour > 0
            THEN Cmap(hours - RedBelow * SecondsPerHour, max_for_norm - RedBelow * SecondsPerHour)
            ELSE Cmap(0, 1)

get_bar_color(hours, max_hours) ==
    LET max_for_norm == Max({max_hours, RedBelow * SecondsPerHour})
    IN  IF hours < RedBelow * SecondsPerHour THEN Red
        ELSE IF max_for_norm - RedBelow * SecondsPerHour > 0
            THEN Cmap(hours - RedBelow * SecondsPerHour, max_for_norm - RedBelow * SecondsPerHour)
            ELSE Cmap(0, 1)

current_max_hours(s) ==
    IF s # <<>> THEN Max({s[i].Total_Hours_Worked : i \in 1..Len(s)})
    ELSE EmptyMax * SecondsPerHour

Colors(s) == [i \in 1..Len(s) |-> get_bar_color(s[i].Total_Hours_Worked, current_max_hours(s))]

(***************************************************************************)
(* The script.                                                             *)
(***************************************************************************)
Init ==
    /\ pc = "loop"
    /\ sort_by_hours \in BOOLEAN
    /\ uploaded_files = <<>>
    /\ all_data = <<>>
    /\ messages = <<>>
    /\ grouped = <<>>
    /\ summary = <<>>
    /\ colors = <<>>
    /\ t_in = Null
    /\ t_out = 0

\* one iteration of the loop, on the next uploaded file
ProcessFile ==
    /\ pc = "loop"
    /\ UploadSize(uploaded_files) < MaxUpload
    /\ \E f \in FilesUpTo(MaxUpload - UploadSize(uploaded_files) - 1) :
          /\ uploaded_files' = Append(uploaded_files, f)
          /\ all_data' = LoopBody(all_data, f).all_data
          /\ messages' = messages \o LoopBody(all_data, f).shown
    /\ UNCHANGED <<pc, sort_by_hours, grouped, summary, colors, t_in, t_out>>

\* "if uploaded_files:" is false
NoUpload ==
    /\ pc = "loop"
    /\ uploaded_files = <<>>
    /\ pc' = "prompt"
    /\ messages' = Append(messages, [level |-> "info", missing |-> <<>>])
    /\ UNCHANGED <<sort_by_hours, uploaded_files, all_data, grouped, summary, colors, t_in, t_out>>

\* "if all_data:" is true: combine, group, merge, sort, colour
Summarize ==
    /\ pc = "loop"
    /\ uploaded_files # <<>>
    /\ all_data # <<>>
    /\ grouped' = Grouped(Concat(all_data))
    /\ \E s \in SummaryOutcomes(all_data, sort_by_hours) :
          /\ summary' = s
          /\ colors' = Colors(s)
    /\ pc' = "summary"
    /\ UNCHANGED <<sort_by_hours, uploaded_files, all_data, messages, t_in, t_out>>

\* "if all_data:" is false
NoValidData ==
    /\ pc = "loop"
    /\ uploaded_files # <<>>
    /\ all_data = <<>>
    /\ pc' = "nodata"
    /\ messages' = Append(messages, [level |-> "info", missing |-> <<>>])
    /\ UNCHANGED <<sort_by_hours, uploaded_files, all_data, grouped, summary, colors, t_in, t_out>>

Next == ProcessFile \/ NoUpload \/ Summarize \/ NoValidData

Spec == Init /\ [][Next]_vars

(***************************************************************************)
(* time_to_hours on its own, over every kind of cell.                      *)
(***************************************************************************)
InitNorm ==
    /\ pc = "norm"
    /\ sort_by_hours = TRUE
    /\ uploaded_files = <<>>
    /\ all_data = <<>>
    /\ messages = <<>>
    /\ grouped = <<>>
    /\ summary = <<>>
    /\ colors = <<>>
    /\ t_in = Null
    /\ t_out = 0

Normalize ==
    /\ pc = "norm"
    /\ \E t \in RawDurations :
          /\ t_in' = t
          /\ t_out' = time_to_hours(t)
    /\ pc' = "normed"
    /\ UNCHANGED <<sort_by_hours, uploaded_files, all_data, messages, grouped, summary, colors>>

NextNorm == Normalize

SpecNorm == InitNorm /\ [][NextNorm]_vars

(***************************************************************************)
(* What an upload holds, read off the uploaded files themselves.           *)
(***************************************************************************)
\* a file the loop ingests: readable and with the three required columns
Accepted(f) == f.readable /\ \A i \in 1..Len(RequiredCols) : RequiredCols[i] \in f.columns

GoodFiles(files) == SelectSeq(files, Accepted)

\* <<file, row>> positions of the rows that survive ingestion
IngestedAt ==
    {pos \in (1..Len(uploaded_files)) \X (1..MaxUpload) :
        /\ Accepted(uploaded_files[pos[1]])
        /\ pos[2] <= Len(uploaded_files[pos[1]].rows)
        /\ uploaded_files[pos[1]].rows[pos[2]].Technician # Null
        /\ uploaded_files[pos[1]].rows[pos[2]].Hours # Null}

RawAt(pos) == uploaded_files[pos[1]].rows[pos[2]]

CanonicalTech(r) == StrUpper(StrStrip(r.Technician.s))

IngestedFor(tech) == {pos \in IngestedAt : CanonicalTech(RawAt(pos)) = tech}

IngestedTechs == {CanonicalTech(RawAt(pos)) : pos \in IngestedAt}

RECURSIVE HoursOver(_)
HoursOver(S) ==
    IF S = {} THEN 0
    ELSE LET pos == CHOOSE q \in S : TRUE
         IN  time_to_hours(RawAt(pos).Hours) + HoursOver(S \ {pos})

RosterIndex(tech) == CHOOSE i \in 1..Len(MANUAL_TECHS) : MANUAL_TECHS[i] = tech

Reordered(files, p) == [i \in 1..Len(files) |-> files[p[i]]]

(***************************************************************************)
(* C1: time_to_hours returns a value >= 0 for every raw duration cell,     *)
(* whatever its representation (null, duration, timestamp, clock time,     *)
(* number, text).                                                          *)
(***************************************************************************)
C1_HoursNeverNegative == pc = "normed" => t_out >= 0

(***************************************************************************)
(* C8: for a numeric cell v, time_to_hours returns v * 24 when             *)
(* 0 <= v <= 1 (both ends included) and v unchanged otherwise.             *)
(***************************************************************************)
C8_NumericDayFraction ==
    (pc = "normed" /\ t_in.kind = "number") =>
        t_out = IF 0 <= t_in.val /\ t_in.val <= SecondsPerHour
                    THEN t_in.val * HoursPerDay
                    ELSE t_in.val

\* the value 1 (a whole day) came back as 24 hours
C8_Witness ==
    /\ pc = "normed"
    /\ t_in = Number(SecondsPerHour)
    /\ t_out = HoursPerDay * SecondsPerHour

(***************************************************************************)
(* C2: the summary holds exactly the roster technicians, each once; a      *)
(* roster technician without aggregated data has 0 work orders and 0.0     *)
(* hours; a technician outside the roster never appears.                   *)
(***************************************************************************)
C2_RosterLeftJoin ==
    pc = "summary" =>
        /\ Len(summary) = Len(MANUAL_TECHS)
        /\ \A i \in 1..Len(MANUAL_TECHS) :
              Cardinality({j \in 1..Len(summary) : summary[j].Technician = MANUAL_TECHS[i]}) = 1
        /\ \A j \in 1..Len(summary) :
              /\ \E i \in 1..Len(MANUAL_TECHS) : summary[j].Technician = MANUAL_TECHS[i]
              /\ summary[j].Technician \notin DOMAIN grouped =>
                    /\ summary[j].Work_Orders_Completed = 0
                    /\ summary[j].Total_Hours_Worked = 0

\* a summary made while the data held a technician outside the roster and
\* lacked one of the roster
C2_Witness ==
    /\ pc = "summary"
    /\ <<"Z", "E", "D">> \in DOMAIN grouped
    /\ ANISH \in DOMAIN grouped
    /\ SRIJAN \notin DOMAIN grouped

(***************************************************************************)
(* C3 as stated: a technician's Work_Orders_Completed is the number of     *)
(* distinct work-order cells among all ingested rows of that technician,   *)
(* every ingested row's cell counted.                                      *)
(***************************************************************************)
C3_EveryWorkOrderCellCounted ==
    pc = "summary" =>
        \A tech \in DOMAIN grouped :
            grouped[tech].Work_Orders_Completed =
                Cardinality({RawAt(pos).WorkOrder : pos \in IngestedFor(tech)})

(***************************************************************************)
(* C3 amended: a technician's Work_Orders_Completed is the number of       *)
(* distinct non-empty work-order identifiers among all ingested rows of    *)
(* that technician over all accepted files; a row whose work-order cell    *)
(* is empty adds no work order.                                            *)
(***************************************************************************)
C3_DistinctWorkOrders ==
    pc = "summary" =>
        /\ DOMAIN grouped = IngestedTechs
        /\ \A tech \in DOMAIN grouped :
              grouped[tech].Work_Orders_Completed =
                  Cardinality({RawAt(pos).WorkOrder : pos \in IngestedFor(tech)} \ {Null})
        /\ \A j \in 1..Len(summary) :
              summary[j].Work_Orders_Completed =
                  Cardinality({RawAt(pos).WorkOrder : pos \in IngestedFor(summary[j].Technician)} \ {Null})

\* one work order reported for a technician in two files, counted once
C3_Witness ==
    /\ pc = "summary"
    /\ \E tech \in DOMAIN grouped :
          /\ grouped[tech].Work_Orders_Completed = 1
          /\ \E a, b \in IngestedFor(tech) :
                /\ a[1] # b[1]
                /\ RawAt(a).WorkOrder = RawAt(b).WorkOrder
                /\ RawAt(a).WorkOrder # Null

(***************************************************************************)
(* C4: a technician's total hours in the aggregation is the sum of the     *)
(* normalised hours of every ingested row of that technician, rows that    *)
(* repeat a work order included; the summary shows that sum (rounded to    *)
(* hundredths).                                                            *)
(***************************************************************************)
C4_TotalHoursIsSumOfAllRows ==
    pc = "summary" =>
        /\ \A tech \in DOMAIN grouped :
              grouped[tech].Total_Hours_Worked = HoursOver(IngestedFor(tech))
        /\ \A j \in 1..Len(summary) :
              summary[j].Total_Hours_Worked = Round2(HoursOver(IngestedFor(summary[j].Technician)))

\* the worked example: (A, WO1, 1 h), (A, WO1, 0.5), (B, WO2, 2.0)
C4_Witness ==
    /\ pc = "summary"
    /\ Len(uploaded_files) = 1
    /\ Len(uploaded_files[1].rows) = 3
    /\ \E j \in 1..Len(summary) :
          summary[j] = [Technician |-> ANISH, Work_Orders_Completed |-> 1,
                        Total_Hours_Worked |-> 13 * SecondsPerHour]
    /\ \E j \in 1..Len(summary) :
          summary[j] = [Technician |-> ROHIT, Work_Orders_Completed |-> 1,
                        Total_Hours_Worked |-> 2 * SecondsPerHour]

(***************************************************************************)
(* C5: a file that is unreadable or lacks a required column contributes    *)
(* no rows, and the files after it are still processed: the data and the   *)
(* outcome of the run are those of the same upload without such files.     *)
(***************************************************************************)
C5_FailedFilesIsolated ==
    /\ all_data = RunLoop(GoodFiles(uploaded_files))
    /\ Len(all_data) = Len(GoodFiles(uploaded_files))
    /\ Len(Concat(all_data)) = Cardinality(IngestedAt)
    /\ pc = "summary" =>
          summary \in SummaryOutcomes(RunLoop(GoodFiles(uploaded_files)), sort_by_hours)
    /\ pc = "nodata" => RunLoop(GoodFiles(uploaded_files)) = <<>>

\* a summary after a file without the work-order column, an unreadable file
\* or both, with rows taken from a later file
C5_Witness ==
    /\ pc = "summary"
    /\ \E k \in 1..Len(uploaded_files) :
          /\ ~Accepted(uploaded_files[k])
          /\ uploaded_files[k].rows # <<>>
          /\ \E pos \in IngestedAt : pos[1] > k

(***************************************************************************)
(* C6: when no file of the upload yields a valid row, the run ends in the  *)
(* "no data" state and produces no summary.                                *)
(***************************************************************************)
C6_NoValidRowIsNoData ==
    (pc \in {"summary", "nodata"} /\ IngestedAt = {}) =>
        (pc = "nodata" /\ summary = <<>>)

(***************************************************************************)
(* C7 as stated: with the checkbox set the rows are in non-increasing      *)
(* order of total hours and rows with equal hours keep roster order;       *)
(* without it the rows are in roster order, which is alphabetical          *)
(* ignoring case.                                                          *)
(***************************************************************************)
RosterAlphabetical ==
    \A i \in 1..(Len(MANUAL_TECHS) - 1) :
        ~StrLess(StrUpper(MANUAL_TECHS[i + 1]), StrUpper(MANUAL_TECHS[i]))

C7_StableDescending ==
    pc = "summary" =>
        IF sort_by_hours
            THEN /\ IsDescending(summary)
                 /\ \A i, j \in 1..Len(summary) :
                       (i < j /\ summary[i].Total_Hours_Worked = summary[j].Total_Hours_Worked)
                           => RosterIndex(summary[i].Technician) < RosterIndex(summary[j].Technician)
            ELSE /\ \A i \in 1..Len(summary) : summary[i].Technician = MANUAL_TECHS[i]
                 /\ RosterAlphabetical

(***************************************************************************)
(* C7 amended: with the checkbox set the rows are the merged rows in       *)
(* non-increasing order of total hours (the order among rows with equal    *)
(* hours is not fixed); without it they are in roster order, which is      *)
(* alphabetical ignoring case.                                             *)
(***************************************************************************)
C7_DescendingOrRoster ==
    pc = "summary" =>
        /\ Len(summary) = Len(MANUAL_TECHS)
        /\ {summary[i] : i \in 1..Len(summary)}
              = {MergedSummary(all_data)[i] : i \in 1..Len(MANUAL_TECHS)}
        /\ IF sort_by_hours
              THEN IsDescending(summary)
              ELSE /\ \A i \in 1..Len(summary) : summary[i].Technician = MANUAL_TECHS[i]
                   /\ RosterAlphabetical

\* a sorted summary with distinct hours at the top and a tie below
C7_Witness ==
    /\ pc = "summary"
    /\ sort_by_hours
    /\ summary[1].Total_Hours_Worked > summary[2].Total_Hours_Worked
    /\ summary[2].Total_Hours_Worked = summary[3].Total_Hours_Worked
    /\ summary[1].Technician # MANUAL_TECHS[1]

(***************************************************************************)
(* C9: a bar is red exactly when its hours are below 20; otherwise its     *)
(* gradient position is (hours - 20) / (max(batch maximum, 20) - 20),      *)
(* lies within [0, 1], and is 0 when that denominator is not positive.     *)
(***************************************************************************)
C9_ColourBand ==
    pc = "summary" =>
        /\ Len(colors) = Len(summary)
        /\ \A i \in 1..Len(summary) :
              LET hours == summary[i].Total_Hours_Worked
                  top == Max({summary[j].Total_Hours_Worked : j \in 1..Len(summary)})
                  den == Max({top, RedBelow * SecondsPerHour}) - RedBelow * SecondsPerHour
              IN  /\ colors[i] = Red <=> hours < RedBelow * SecondsPerHour
                  /\ colors[i] # Red =>
                        /\ colors[i].den > 0
                        /\ 0 <= colors[i].num
                        /\ colors[i].num <= colors[i].den
                        /\ den <= 0 => colors[i].num = 0
                        /\ den > 0 =>
                              /\ colors[i].num = hours - RedBelow * SecondsPerHour
                              /\ colors[i].den = den

\* a technician at exactly 20.0 hours in a batch whose maximum is 20.0
C9_Witness ==
    /\ pc = "summary"
    /\ \E i \in 1..Len(summary) :
          /\ summary[i].Total_Hours_Worked = RedBelow * SecondsPerHour
          /\ current_max_hours(summary) = RedBelow * SecondsPerHour
          /\ colors[i] = Cmap(0, 1)

====
